---------------------------- MODULE Spec2Model ----------------------------
(***************************************************************************)
(* A model of the OptionsPricer repository: the closed-form Black-Scholes  *)
(* pricer and its Greeks (src/src/models/black_scholes.py) and the implied *)
(* volatility surface builder (src/src/ui/visualizations/                  *)
(* volatility_surface.py).                                                 *)
(*                                                                         *)
(* Floating-point numbers are modelled as extended fixed-point values:     *)
(* a record [k |-> "fin", v |-> n] stands for the real n / SC, and the     *)
(* three IEEE special values are [k |-> "nan"], +inf and -inf.  Division   *)
(* by zero follows numpy's float64 rules (x/0 = +-inf, 0/0 = nan, with a   *)
(* warning and no exception).                                              *)
(***************************************************************************)
EXTENDS Integers, Sequences, FiniteSets, TLC

(***************************************************************************)
(* Fixed-point arithmetic on integers: n stands for n / SC.                *)
(***************************************************************************)
SC == 1000000

Limb == 1000

Abs(n) == IF n < 0 THEN -n ELSE n

Sgn(n) == IF n < 0 THEN -1 ELSE IF n > 0 THEN 1 ELSE 0

\* |a| * |b| / SC, rounded to nearest, by three limbs of base 1000 so that no
\* intermediate product leaves the 32-bit range.
MulAbs(a, b) ==
    LET a2 == a \div (Limb * Limb)
        a1 == (a \div Limb) % Limb
        a0 == a % Limb
        b2 == b \div (Limb * Limb)
        b1 == (b \div Limb) % Limb
        b0 == b % Limb
        low == (a1 * b0 + a0 * b1) * Limb + a0 * b0
    IN  a2 * b2 * SC + (a2 * b1 + a1 * b2) * Limb
          + (a2 * b0 + a1 * b1 + a0 * b2)
          + (low + SC \div 2) \div SC

MulQ(a, b) == Sgn(a) * Sgn(b) * MulAbs(Abs(a), Abs(b))

Pow10(n) == 10 ^ n

\* round(r * 10^n / b) for 0 <= r < b, one decimal digit at a time.
RECURSIVE DivDigits(_, _, _)
DivDigits(r, b, n) ==
    IF n = 0 THEN (IF 2 * r >= b THEN 1 ELSE 0)
    ELSE ((r * 10) \div b) * Pow10(n - 1) + DivDigits((r * 10) % b, b, n - 1)

DivAbs(a, b) == (a \div b) * SC + DivDigits(a % b, b, 6)

\* a / b in fixed point, b # 0.
DivQ(a, b) == Sgn(a) * Sgn(b) * DivAbs(Abs(a), Abs(b))

\* Newton's iteration from above: y decreases to sqrt(x).
RECURSIVE SqrtIter(_, _, _)
SqrtIter(x, y, n) ==
    LET y2 == (y + DivQ(x, y)) \div 2
    IN  IF n = 0 \/ y2 >= y THEN y ELSE SqrtIter(x, y2, n - 1)

\* sqrt(x) for x >= 0.
SqrtQ(x) == IF x = 0 THEN 0 ELSE SqrtIter(x, IF x > SC THEN x ELSE SC, 40)

LN2 == 693147

\* sum over k of z^(2k+1) / (2k+1), the series of atanh(z).
RECURSIVE AtanhSeries(_, _, _, _)
AtanhSeries(pow, z2, k, n) ==
    IF n = 0 THEN 0
    ELSE pow \div (2 * k + 1) + AtanhSeries(MulQ(pow, z2), z2, k + 1, n - 1)

\* ln(x) for x > 0: halve or double into [0.75, 1.5], then 2 * atanh((x-1)/(x+1)).
RECURSIVE LnQ(_)
LnQ(x) ==
    IF x > (3 * SC) \div 2 THEN LN2 + LnQ(x \div 2)
    ELSE IF x < (3 * SC) \div 4 THEN LnQ(2 * x) - LN2
    ELSE LET z == DivQ(x - SC, x + SC)
         IN  2 * AtanhSeries(z, MulQ(z, z), 0, 6)

\* sum over k of x^k / k!, for |x| < 1.
RECURSIVE ExpSeries(_, _, _, _)
ExpSeries(term, x, k, n) ==
    IF n = 0 THEN 0
    ELSE term + ExpSeries(MulQ(term, x) \div (k + 1), x, k + 1, n - 1)

EulerE == 2718282

EulerInv == 367879

RECURSIVE PowQ(_, _)
PowQ(b, n) == IF n = 0 THEN SC ELSE MulQ(b, PowQ(b, n - 1))

\* e^x: the integer part by powers of e (or 1/e), the fraction by the series.
ExpQ(x) ==
    IF x >= 0
    THEN MulQ(PowQ(EulerE, x \div SC), ExpSeries(SC, x % SC, 0, 12))
    ELSE IF (-x) \div SC > 20 THEN 0
    ELSE MulQ(PowQ(EulerInv, (-x) \div SC), ExpSeries(SC, -((-x) % SC), 0, 12))

InvSqrt2Pi == 398942

\* The standard normal density (scipy.stats.norm.pdf).
PdfQ(x) ==
    IF Abs(x) > 10 * SC THEN 0
    ELSE MulQ(InvSqrt2Pi, ExpQ(-(MulQ(x, x) \div 2)))

\* The standard normal distribution function (scipy.stats.norm.cdf), by the
\* rational approximation 26.2.17 of Abramowitz and Stegun for x >= 0 and by
\* symmetry for x < 0.
CdfPos(x) ==
    LET t == DivQ(SC, SC + MulQ(231642, x))
        p5 == 1330274
        p4 == -1821256 + MulQ(t, p5)
        p3 == 1781478 + MulQ(t, p4)
        p2 == -356564 + MulQ(t, p3)
        p1 == 319382 + MulQ(t, p2)
    IN  SC - MulQ(PdfQ(x), MulQ(t, p1))

CdfQ(x) ==
    IF x > 10 * SC THEN SC
    ELSE IF x < -10 * SC THEN 0
    ELSE IF x >= 0 THEN CdfPos(x) ELSE SC - CdfPos(-x)

(***************************************************************************)
(* Extended values: float64 with its special values.                       *)
(***************************************************************************)
Fin(n) == [k |-> "fin", v |-> n]

NaN == [k |-> "nan", v |-> 0]

PInf == [k |-> "inf", v |-> 1]

NInf == [k |-> "inf", v |-> -1]

Inf(s) == IF s < 0 THEN NInf ELSE PInf

IsFin(x) == x.k = "fin"

IsNaN(x) == x.k = "nan"

FSgn(x) == IF x.k = "fin" THEN Sgn(x.v) ELSE x.v

FNeg(x) ==
    IF x.k = "nan" THEN NaN
    ELSE IF x.k = "inf" THEN Inf(-x.v)
    ELSE Fin(-x.v)

FAdd(x, y) ==
    IF x.k = "nan" \/ y.k = "nan" THEN NaN
    ELSE IF x.k = "inf" /\ y.k = "inf" THEN (IF x.v = y.v THEN x ELSE NaN)
    ELSE IF x.k = "inf" THEN x
    ELSE IF y.k = "inf" THEN y
    ELSE Fin(x.v + y.v)

FSub(x, y) == FAdd(x, FNeg(y))

FMul(x, y) ==
    IF x.k = "nan" \/ y.k = "nan" THEN NaN
    ELSE IF x.k = "inf" \/ y.k = "inf"
         THEN (IF FSgn(x) = 0 \/ FSgn(y) = 0 THEN NaN ELSE Inf(FSgn(x) * FSgn(y)))
    ELSE Fin(MulQ(x.v, y.v))

\* numpy float64 division: x/0 is +-inf, 0/0 is nan (a RuntimeWarning, no
\* exception); a zero divisor is +0.0.
FDiv(x, y) ==
    IF x.k = "nan" \/ y.k = "nan" THEN NaN
    ELSE IF y.k = "inf" THEN (IF x.k = "inf" THEN NaN ELSE Fin(0))
    ELSE IF y.v = 0 THEN (IF FSgn(x) = 0 THEN NaN ELSE Inf(FSgn(x)))
    ELSE IF x.k = "inf" THEN Inf(x.v * Sgn(y.v))
    ELSE Fin(DivQ(x.v, y.v))

\* numpy.log
FLog(x) ==
    IF x.k = "nan" THEN NaN
    ELSE IF x.k = "inf" THEN (IF x.v > 0 THEN PInf ELSE NaN)
    ELSE IF x.v < 0 THEN NaN
    ELSE IF x.v = 0 THEN NInf
    ELSE Fin(LnQ(x.v))

\* numpy.sqrt
FSqrt(x) ==
    IF x.k = "nan" THEN NaN
    ELSE IF x.k = "inf" THEN (IF x.v > 0 THEN PInf ELSE NaN)
    ELSE IF x.v < 0 THEN NaN
    ELSE Fin(SqrtQ(x.v))

\* numpy.exp
FExp(x) ==
    IF x.k = "nan" THEN NaN
    ELSE IF x.k = "inf" THEN (IF x.v > 0 THEN PInf ELSE Fin(0))
    ELSE Fin(ExpQ(x.v))

\* scipy.stats.norm.cdf
FCdf(x) ==
    IF x.k = "nan" THEN NaN
    ELSE IF x.k = "inf" THEN (IF x.v > 0 THEN Fin(SC) ELSE Fin(0))
    ELSE Fin(CdfQ(x.v))

\* scipy.stats.norm.pdf
FPdf(x) ==
    IF x.k = "nan" THEN NaN
    ELSE IF x.k = "inf" THEN Fin(0)
    ELSE Fin(PdfQ(x.v))

\* x <= y on float64: false whenever either side is nan.
FLe(x, y) ==
    IF x.k = "nan" \/ y.k = "nan" THEN FALSE
    ELSE IF x.k = "inf" THEN (x.v < 0 \/ (y.k = "inf" /\ y.v > 0))
    ELSE IF y.k = "inf" THEN y.v > 0
    ELSE x.v <= y.v

(***************************************************************************)
(* Results of a call: a returned value or a raised exception.              *)
(***************************************************************************)
Returned(v) == [st |-> "return", val |-> v]

Raised(e) == [st |-> "raise", val |-> e]

NotCalled == [st |-> "none", val |-> "none"]

Max(a, b) == IF a >= b THEN a ELSE b

(***************************************************************************)
(* src/src/models/black_scholes.py                                         *)
(***************************************************************************)
\* A slip: the variance term subtracted, which gives d2 in the place of d1.
d1_minus(S, K, T, r, sigma) ==
    FDiv(FAdd(FLog(FDiv(Fin(S), Fin(K))),
              FMul(FSub(Fin(r), FMul(Fin(SC \div 2), FMul(Fin(sigma), Fin(sigma)))),
                   Fin(T))),
         FMul(Fin(sigma), FSqrt(Fin(T))))

\* d1 = (np.log(S / K) + (r + 0.5 * sigma ** 2) * T) / (sigma * np.sqrt(T))
d1(S, K, T, r, sigma) ==
    FDiv(FAdd(FLog(FDiv(Fin(S), Fin(K))),
              FMul(FAdd(Fin(r), FMul(Fin(SC \div 2), FMul(Fin(sigma), Fin(sigma)))),
                   Fin(T))),
         FMul(Fin(sigma), FSqrt(Fin(T))))

\* d2 = d1 - sigma * np.sqrt(T), of the d1 just computed
d2(e1, T, sigma) == FSub(e1, FMul(Fin(sigma), FSqrt(Fin(T))))

\* K * np.exp(-r * T)
DiscountedStrike(K, T, r) == FMul(Fin(K), FExp(FMul(FNeg(Fin(r)), Fin(T))))

\* A slip: the put's second term taken at d2 instead of -d2.
price_formula_put_d2(S, K, T, r, sigma, option_type) ==
    LET e1 == d1(S, K, T, r, sigma)
        e2 == d2(e1, T, sigma)
    IN  IF option_type = "call"
        THEN Returned(FSub(FMul(Fin(S), FCdf(e1)),
                           FMul(DiscountedStrike(K, T, r), FCdf(e2))))
        ELSE IF option_type = "put"
        THEN Returned(FSub(FMul(DiscountedStrike(K, T, r), FCdf(e2)),
                           FMul(Fin(S), FCdf(FNeg(e1)))))
        ELSE Raised("ValueError")

\* The branch T > 0 of black_scholes_price.  d1 and d2 are computed before the
\* option type is looked at.
price_formula(S, K, T, r, sigma, option_type) ==
    LET e1 == d1(S, K, T, r, sigma)
        e2 == d2(e1, T, sigma)
    IN  IF option_type = "call"
        THEN Returned(FSub(FMul(Fin(S), FCdf(e1)),
                           FMul(DiscountedStrike(K, T, r), FCdf(e2))))
        ELSE IF option_type = "put"
        THEN Returned(FSub(FMul(DiscountedStrike(K, T, r), FCdf(FNeg(e2))),
                           FMul(Fin(S), FCdf(FNeg(e1)))))
        ELSE Raised("ValueError")

\* A slip: the intrinsic values of call and put exchanged.
black_scholes_price_swapped(S, K, T, r, sigma, option_type) ==
    IF T <= 0
    THEN Returned(Fin(IF option_type = "call" THEN Max(0, K - S) ELSE Max(0, S - K)))
    ELSE price_formula(S, K, T, r, sigma, option_type)

black_scholes_price(S, K, T, r, sigma, option_type) ==
    IF T <= 0
    THEN Returned(Fin(IF option_type = "call" THEN Max(0, S - K) ELSE Max(0, K - S)))
    ELSE price_formula(S, K, T, r, sigma, option_type)

Zero == Fin(0)

\* The branch T > 0 of black_scholes_greeks.
greeks_formula(S, K, T, r, sigma, option_type) ==
    LET e1 == d1(S, K, T, r, sigma)
        e2 == d2(e1, T, sigma)
        sq == FSqrt(Fin(T))
        pdf1 == FPdf(e1)
        nd2 == FCdf(IF option_type = "call" THEN e2 ELSE FNeg(e2))
        delta == IF option_type = "call" THEN FCdf(e1)
                 ELSE FSub(FCdf(e1), Fin(SC))
        gamma == FDiv(pdf1, FMul(FMul(Fin(S), Fin(sigma)), sq))
        vega == FMul(FMul(Fin(S), pdf1), sq)
        theta == FSub(FDiv(FMul(FMul(FNeg(Fin(S)), pdf1), Fin(sigma)),
                           FMul(Fin(2 * SC), sq)),
                      FMul(FMul(Fin(r), DiscountedStrike(K, T, r)), nd2))
        rho == FMul(FMul(FMul(Fin(K), Fin(T)),
                         FExp(FMul(FNeg(Fin(r)), Fin(T)))), nd2)
    IN  Returned([Delta |-> delta, Gamma |-> gamma, Vega |-> vega,
                  Theta |-> theta, Rho |-> rho])

\* A slip: the early exit taken for T < 0 only, so that T = 0 reaches the formulas.
black_scholes_greeks_strict(S, K, T, r, sigma, option_type) ==
    IF T < 0
    THEN Returned([Delta |-> Zero, Gamma |-> Zero, Vega |-> Zero,
                   Theta |-> Zero, Rho |-> Zero])
    ELSE greeks_formula(S, K, T, r, sigma, option_type)

black_scholes_greeks(S, K, T, r, sigma, option_type) ==
    IF T <= 0
    THEN Returned([Delta |-> Zero, Gamma |-> Zero, Vega |-> Zero,
                   Theta |-> Zero, Rho |-> Zero])
    ELSE greeks_formula(S, K, T, r, sigma, option_type)

(***************************************************************************)
(* src/src/ui/visualizations/volatility_surface.py                         *)
(*                                                                         *)
(* options_data is a sequence (a dict in insertion order) of entries       *)
(* [exp, calls, puts]; exp is the expiration date as a day number, calls   *)
(* and puts are sequences of rows [strike, iv].  The clock counts ticks,   *)
(* TicksPerDay to a day, and an expiration date is the midnight that       *)
(* starts its day.  strike_range is <<>> for None, or <<lo, hi>>.          *)
(* A grid axis of n points from lo to hi is kept exactly, as the           *)
(* numerators (n-1)*lo + i*(hi-lo) over the denominator n-1.               *)
(***************************************************************************)
VARIABLES
    now,            \* the clock that datetime.now() reads
    options_data,   \* the argument options_data
    current_price,  \* the argument current_price
    strike_range,   \* the argument strike_range
    surf,           \* what the latest call of interpolate_volatility_surface gave
    locals          \* the local variables of that call, as it left them

TicksPerDay == 2

\* (expiry - today).days
DaysToExpiry(exp_date) == (exp_date * TicksPerDay - now) \div TicksPerDay

FLt(x, y) == FLe(x, y) /\ x # y

\* A slip: the test iv > 0 left out, so that a zero quote counts as valid.
RECURSIVE ExtractRows_any_iv(_, _, _, _)
ExtractRows_any_iv(rows, days, range, acc) ==
    IF rows = <<>> THEN acc
    ELSE LET row == Head(rows)
             outside == range # <<>> /\ (row.strike < range[1] \/ row.strike > range[2])
             valid == ~IsNaN(row.iv)
         IN  ExtractRows_any_iv(Tail(rows), days, range,
                 IF ~outside /\ valid
                 THEN [acc EXCEPT !.all_strikes = @ \cup {row.strike},
                                  !.iv_data = (<<days, row.strike>> :> row.iv) @@ @]
                 ELSE acc)

\* A slip: a key already in the table keeps its first quote.
RECURSIVE ExtractRows_first_wins(_, _, _, _)
ExtractRows_first_wins(rows, days, range, acc) ==
    IF rows = <<>> THEN acc
    ELSE LET row == Head(rows)
             outside == range # <<>> /\ (row.strike < range[1] \/ row.strike > range[2])
             valid == ~IsNaN(row.iv) /\ FLt(Zero, row.iv)
         IN  ExtractRows_first_wins(Tail(rows), days, range,
                 IF ~outside /\ valid
                 THEN [acc EXCEPT !.all_strikes = @ \cup {row.strike},
                                  !.iv_data = @ @@ (<<days, row.strike>> :> row.iv)]
                 ELSE acc)

\* Lines 43-54: the rows of one expiration, calls before puts.
RECURSIVE ExtractRows(_, _, _, _)
ExtractRows(rows, days, range, acc) ==
    IF rows = <<>> THEN acc
    ELSE LET row == Head(rows)
             outside == range # <<>> /\ (row.strike < range[1] \/ row.strike > range[2])
             valid == ~IsNaN(row.iv) /\ FLt(Zero, row.iv)
         IN  ExtractRows(Tail(rows), days, range,
                 IF ~outside /\ valid
                 THEN [acc EXCEPT !.all_strikes = @ \cup {row.strike},
                                  !.iv_data = (<<days, row.strike>> :> row.iv) @@ @]
                 ELSE acc)

\* Lines 30-54: all_days, all_strikes and iv_data.
RECURSIVE ExtractAll(_, _, _)
ExtractAll(exps, range, acc) ==
    IF exps = <<>> THEN acc
    ELSE LET days == DaysToExpiry(Head(exps).exp)
         IN  IF days <= 0
             THEN ExtractAll(Tail(exps), range, acc)
             ELSE ExtractAll(Tail(exps), range,
                     ExtractRows(Head(exps).calls \o Head(exps).puts, days, range,
                                 [acc EXCEPT !.all_days = Append(@, days)]))

SetMin(S) == CHOOSE x \in S : \A y \in S : x <= y

\* sorted(...) of a set of numbers.
RECURSIVE SortedSet(_)
SortedSet(S) ==
    IF S = {} THEN <<>> ELSE <<SetMin(S)>> \o SortedSet(S \ {SetMin(S)})

SeqRange(s) == {s[i] : i \in 1..Len(s)}

\* A slip: the last minimal element instead of the first.
RECURSIVE ClosestFrom_last(_, _, _, _)
ClosestFrom_last(xs, num, den, best) ==
    IF xs = <<>> THEN best
    ELSE ClosestFrom_last(Tail(xs), num, den,
            IF Abs(den * Head(xs) - num) <= Abs(den * best - num) THEN Head(xs) ELSE best)

\* min(xs, key=lambda x: abs(x - num/den)): the first minimal element.
RECURSIVE ClosestFrom(_, _, _, _)
ClosestFrom(xs, num, den, best) ==
    IF xs = <<>> THEN best
    ELSE ClosestFrom(Tail(xs), num, den,
            IF Abs(den * Head(xs) - num) < Abs(den * best - num) THEN Head(xs) ELSE best)

Closest(xs, num, den) == ClosestFrom(Tail(xs), num, den, Head(xs))

strike_points == 50

MaxDayPoints == 50

PointsPerDay == 5

\* A slip: the day axis always given its full resolution.
day_points_fixed(all_days) == MaxDayPoints

\* day_points = min(50, len(all_days) * 5)
day_points(all_days) ==
    IF Len(all_days) * PointsPerDay < MaxDayPoints
    THEN Len(all_days) * PointsPerDay ELSE MaxDayPoints

\* np.linspace(lo, hi, n)[i], times n - 1.
LinNum(lo, hi, n, i) == (n - 1) * lo + i * (hi - lo)

RECURSIVE FSum(_)
FSum(s) == IF s = <<>> THEN Zero ELSE FAdd(Head(s), FSum(Tail(s)))

\* A slip: the mean taken over the quotes of every day.
DayMean_all_days(iv_data, day) ==
    LET ks == DOMAIN iv_data
        vals == [i \in 1..Cardinality(ks) |->
                    iv_data[CHOOSE key \in ks :
                        Cardinality({k2 \in ks : k2[1] < key[1] \/
                                        (k2[1] = key[1] /\ k2[2] < key[2])}) = i - 1]]
    IN  FDiv(FSum(vals), Fin(Cardinality(ks) * SC))

\* np.mean of the quotes of one day; of no quote it is nan (a RuntimeWarning).
DayMean(iv_data, day) ==
    LET ks == {key \in DOMAIN iv_data : key[1] = day}
        vals == [i \in 1..Cardinality(ks) |->
                    iv_data[CHOOSE key \in ks :
                        Cardinality({k2 \in ks : k2[2] < key[2]}) = i - 1]]
    IN  FDiv(FSum(vals), Fin(Cardinality(ks) * SC))

\* A slip: the quote at the money preferred to the direct quote.
NodeValue_atm_first(iv_data, all_strikes, price, closest_day, closest_strike) ==
    LET atm_strike == Closest(all_strikes, price, 1)
    IN  IF <<closest_day, atm_strike>> \in DOMAIN iv_data
        THEN iv_data[<<closest_day, atm_strike>>]
        ELSE IF <<closest_day, closest_strike>> \in DOMAIN iv_data
        THEN iv_data[<<closest_day, closest_strike>>]
        ELSE DayMean(iv_data, closest_day)

\* Lines 81-90: the value of a node whose closest day and strike are given.
NodeValue(iv_data, all_strikes, price, closest_day, closest_strike) ==
    IF <<closest_day, closest_strike>> \in DOMAIN iv_data
    THEN iv_data[<<closest_day, closest_strike>>]
    ELSE LET atm_strike == Closest(all_strikes, price, 1)
         IN  IF <<closest_day, atm_strike>> \in DOMAIN iv_data
             THEN iv_data[<<closest_day, atm_strike>>]
             ELSE DayMean(iv_data, closest_day)

\* Lines 20-54: what the loop over the expirations collects.
Extracted(data, range) ==
    ExtractAll(data, range, [all_days |-> <<>>, all_strikes |-> {}, iv_data |-> <<>>])

\* The locals of a call: today (line 22), all_days and all_strikes as sorted
\* (lines 57-58), iv_data, and what lines 77, 78 and 85 select: closest_day for
\* each node of the day axis, closest_strike for each node of the strike axis
\* (the closest day of a node depends on its day alone and the closest strike
\* on its strike alone), atm_strike.  The selections are kept for a call that
\* returns; they are <<>> for a call that raised.
LocalsOf(data, price, range0) ==
    LET ex == Extracted(data, range0)
        all_days == SortedSet(SeqRange(ex.all_days))
        all_strikes == SortedSet(ex.all_strikes)
        returns == all_days # <<>> /\ all_strikes # <<>>
        range == IF range0 = <<>> /\ returns
                 THEN <<all_strikes[1], all_strikes[Len(all_strikes)]>>
                 ELSE range0
        dp == day_points(all_days)
    IN  [today |-> now,
         all_days |-> all_days,
         all_strikes |-> all_strikes,
         iv_data |-> ex.iv_data,
         closest_day |->
             IF returns
             THEN [i \in 1..dp |->
                      Closest(all_days,
                              LinNum(all_days[1], all_days[Len(all_days)], dp, i - 1),
                              dp - 1)]
             ELSE <<>>,
         closest_strike |->
             IF returns
             THEN [j \in 1..strike_points |->
                      Closest(all_strikes,
                              LinNum(range[1], range[2], strike_points, j - 1),
                              strike_points - 1)]
             ELSE <<>>,
         atm_strike |-> IF returns THEN <<Closest(all_strikes, price, 1)>> ELSE <<>>]

\* Lines 56-95, given the locals lc of the call.
\* vol[j][i] is volatility_surface.T[j, i], the node of strikes[j] and days[i].
BuildGrid(lc, price, range0) ==
    LET all_days == lc.all_days
        all_strikes == lc.all_strikes
    IN  IF range0 = <<>> /\ all_strikes = <<>> THEN Raised("ValueError")
        ELSE IF all_days = <<>> THEN Raised("ValueError")
        ELSE IF all_strikes = <<>> THEN Raised("ValueError")
        ELSE
        LET range == IF range0 = <<>>
                     THEN <<all_strikes[1], all_strikes[Len(all_strikes)]>>
                     ELSE range0
            dp == day_points(all_days)
        IN  Returned([days |-> [i \in 1..dp |->
                                   LinNum(all_days[1], all_days[Len(all_days)], dp, i - 1)],
                      dayDen |-> dp - 1,
                      strikes |-> [j \in 1..strike_points |->
                                      LinNum(range[1], range[2], strike_points, j - 1)],
                      strikeDen |-> strike_points - 1,
                      vol |-> [j \in 1..strike_points |-> [i \in 1..dp |->
                                  NodeValue(lc.iv_data, all_strikes, price,
                                            lc.closest_day[i], lc.closest_strike[j])]]])

interpolate_volatility_surface(data, price, range) ==
    BuildGrid(LocalsOf(data, price, range), price, range)

(***************************************************************************)
(* src.models.binomial_pricing.american_option_binomial, the lattice       *)
(* pricer that options_helpers.py imports (line 3) and calls as            *)
(* american_option_binomial(S, K, r, T, sigma, N, option_type) (lines      *)
(* 60-68).  Its module is not among the sources; it is modelled from       *)
(* spec.md 4.2 (Cox-Ross-Rubinstein lattice) and spec.md 6 (taxonomy of    *)
(* the errors).  Where spec.md leaves the order of the two input checks    *)
(* open, both orders are kept: the pricer's outcome is a set.              *)
(***************************************************************************)
\* max(a, b) of two floats: b when a < b, else a.
FMax(a, b) == IF FLt(a, b) THEN b ELSE a

\* max(0, S_i - strike) for a call, max(0, strike - S_i) for a put.
Intrinsic(Si, K, option_type) ==
    IF option_type = "call" THEN FMax(Zero, FSub(Si, Fin(K)))
    ELSE FMax(Zero, FSub(Fin(K), Si))

\* <<b^0, b^1, ..., b^n>>
RECURSIVE Powers(_, _)
Powers(b, n) ==
    IF n = 0 THEN <<Fin(SC)>>
    ELSE LET ps == Powers(b, n - 1) IN Append(ps, FMul(ps[n], b))

\* Step 1: dt = T/steps, u = e^(vol*sqrt(dt)), d = 1/u,
\* p = (e^(rate*dt) - d) / (u - d), q = 1 - p; the discount factor of one
\* step is e^(-rate*dt).
LatticeParams(r, T, sigma, steps) ==
    LET dt == FDiv(Fin(T), Fin(steps * SC))
        u == FExp(FMul(Fin(sigma), FSqrt(dt)))
        d == FDiv(Fin(SC), u)
        p == FDiv(FSub(FExp(FMul(Fin(r), dt)), d), FSub(u, d))
    IN  [dt |-> dt, u |-> u, d |-> d, p |-> p, q |-> FSub(Fin(SC), p),
         discount |-> FExp(FNeg(FMul(Fin(r), dt))),
         upow |-> Powers(u, steps), dpow |-> Powers(d, steps)]

\* S_i = spot * u^i * d^(step - i)
NodePrice(S, lp, step, i) == FMul(FMul(Fin(S), lp.upow[i + 1]), lp.dpow[step - i + 1])

\* Step 2: the terminal layer, its nodes Len(acc)..steps put after those of acc.
RECURSIVE TerminalLayer(_, _, _, _, _, _)
TerminalLayer(S, K, lp, steps, option_type, acc) ==
    IF Len(acc) > steps THEN acc
    ELSE LET Si == NodePrice(S, lp, steps, Len(acc))
         IN  TerminalLayer(S, K, lp, steps, option_type,
                 Append(acc, [S |-> Si, value |-> Intrinsic(Si, K, option_type)]))

\* e^(-rate*dt) * (p * V_{i+1,step+1} + (1 - p) * V_{i,step+1})
Continuation(lp, up, down) ==
    FMul(lp.discount, FAdd(FMul(lp.p, up), FMul(lp.q, down)))

\* A slip: the node is always exercised, it takes its intrinsic value.
InductionNode_exercised(S, K, lp, step, i, next, option_type) ==
    LET Si == NodePrice(S, lp, step, i)
        cont == Continuation(lp, next[i + 2].value, next[i + 1].value)
    IN  [S |-> Si, continuation |-> cont, value |-> Intrinsic(Si, K, option_type)]

\* A slip: the European valuation, the node keeps its continuation value.
InductionNode_european(S, K, lp, step, i, next, option_type) ==
    LET Si == NodePrice(S, lp, step, i)
        cont == Continuation(lp, next[i + 2].value, next[i + 1].value)
    IN  [S |-> Si, continuation |-> cont, value |-> cont]

\* Step 3, one node: value = max(continuation, intrinsic(S_i)).
InductionNode(S, K, lp, step, i, next, option_type) ==
    LET Si == NodePrice(S, lp, step, i)
        cont == Continuation(lp, next[i + 2].value, next[i + 1].value)
    IN  [S |-> Si, continuation |-> cont,
         value |-> FMax(cont, Intrinsic(Si, K, option_type))]

\* The layer of step, its nodes Len(acc)..step put after those of acc; next
\* is the layer of step + 1.
RECURSIVE InductionLayer(_, _, _, _, _, _, _)
InductionLayer(S, K, lp, step, option_type, next, acc) ==
    IF Len(acc) > step THEN acc
    ELSE InductionLayer(S, K, lp, step, option_type, next,
             Append(acc, InductionNode(S, K, lp, step, Len(acc), next, option_type)))

\* Step 3: backward induction from step = steps - 1 down to 0.  layers holds
\* the layers already valued, the earliest step first, and next is the layer
\* after the step to value.
RECURSIVE BackwardInduction(_, _, _, _, _, _, _)
BackwardInduction(S, K, lp, steps, option_type, next, layers) ==
    IF Len(layers) = steps THEN layers
    ELSE LET layer == InductionLayer(S, K, lp, steps - 1 - Len(layers), option_type,
                                     next, <<>>)
         IN  BackwardInduction(S, K, lp, steps, option_type, layer, <<layer>> \o layers)

\* The lattice of valid inputs: DomainError for a negative volatility or
\* time, DegenerateLatticeError when u = d, else the value at step 0.  The
\* layers are kept beside the price: layers[step + 1][i + 1] is node i of step.
Lattice(S, K, r, T, sigma, steps, option_type) ==
    IF T < 0 \/ sigma < 0 THEN Raised("DomainError")
    ELSE LET lp == LatticeParams(r, T, sigma, steps)
         IN  IF lp.u = lp.d THEN Raised("DegenerateLatticeError")
             ELSE LET terminal == TerminalLayer(S, K, lp, steps, option_type, <<>>)
                      layers == BackwardInduction(S, K, lp, steps, option_type,
                                                  terminal, <<>>)
                  IN  Returned([price |-> layers[1][1].value, layers |-> layers,
                                terminal |-> terminal])

\* A slip: the check of the kind left out.
InputErrors_steps_only(steps, option_type) ==
    IF steps < 1 THEN {"InvalidStepCount"} ELSE {}

\* The errors of the inputs: InvalidStepCount for steps < 1, InvalidOptionKind
\* for a kind that is neither call nor put.
InputErrors(steps, option_type) ==
    (IF steps < 1 THEN {"InvalidStepCount"} ELSE {})
        \cup (IF option_type \notin {"call", "put"} THEN {"InvalidOptionKind"} ELSE {})

\* The outcomes of american_option_binomial(S, K, r, T, sigma, N, option_type):
\* one of the input errors if there is any, else the outcome of the lattice.
american_option_binomial(S, K, r, T, sigma, N, option_type) ==
    IF InputErrors(N, option_type) # {}
    THEN {Raised(e) : e \in InputErrors(N, option_type)}
    ELSE {Lattice(S, K, r, T, sigma, N, option_type)}

(***************************************************************************)
(* src/src/ui/app.py, lines 76-86: the choice of the pricing model and of  *)
(* the step count; src/src/ui/options_helpers.py, display_options: the     *)
(* rows near the current price and, for the binomial model, the calls of   *)
(* the lattice pricer, one for each row kept.                              *)
(***************************************************************************)
PricingModels == <<"Black-Scholes (European)", "Binomial Tree (American)">>

\* st.sidebar.slider("Number of Steps", min_value=20, max_value=200, value=50, step=10)
slider_min == 20

slider_max == 200

slider_value == 50

slider_step == 10

\* n_steps = 50 when the binomial model is not selected
default_steps == 50

\* The positions of the slider that are tried: the lowest ones, and the one
\* it starts at.
MaxSliderIdx == 0

SliderValues ==
    {v \in {slider_min + i * slider_step : i \in 0..MaxSliderIdx} \cup {slider_value} :
        v <= slider_max}

\* A slip: the two bounds excluded.
NearTheMoney_strict(strike, current) ==
    /\ strike > MulQ(current, 8 * (SC \div 10))
    /\ strike < MulQ(current, 12 * (SC \div 10))

\* (options_df['strike'] >= current_price * 0.8) & (options_df['strike'] <= current_price * 1.2)
NearTheMoney(strike, current) ==
    /\ strike >= MulQ(current, 8 * (SC \div 10))
    /\ strike <= MulQ(current, 12 * (SC \div 10))

RECURSIVE SelectRows(_, _)
SelectRows(rows, current) ==
    IF rows = <<>> THEN <<>>
    ELSE (IF NearTheMoney(Head(rows).strike, current) THEN <<Head(rows)>> ELSE <<>>)
             \o SelectRows(Tail(rows), current)

\* One call of the lattice pricer: who made it, its arguments, its outcome.
Invocation(caller, S, K, r, T, sigma, N, option_type, out) ==
    [caller |-> caller, S |-> S, K |-> K, r |-> r, T |-> T, sigma |-> sigma,
     steps |-> N, kind |-> option_type, out |-> out]

\* filtered_options.apply(lambda row: american_option_binomial(current_price,
\* row['strike'], r, years_to_expiry, row['impliedVolatility'], n_steps,
\* option_type.lower()), axis=1): the calls made for rows, after those of
\* acc; an exception ends the apply.
RECURSIVE ApplyLattice(_, _, _, _, _, _, _)
ApplyLattice(rows, kind, current, years, r, N, acc) ==
    IF rows = <<>> THEN {acc}
    ELSE UNION {
           LET done == Append(acc, Invocation("display_options", current, Head(rows).strike,
                                              r, years, Head(rows).impliedVolatility,
                                              N, kind, out))
           IN  IF out.st = "raise" THEN {done}
               ELSE ApplyLattice(Tail(rows), kind, current, years, r, N, done) :
           out \in american_option_binomial(current, Head(rows).strike, r, years,
                                            Head(rows).impliedVolatility, N, kind)}

\* option_type.lower()
Lower(option_type) == IF option_type = "Call" THEN "call" ELSE "put"

\* The columns of a quote table as it is fetched, and those that a table
\* must have.  The rows of the model carry the values of strike,
\* impliedVolatility and, when the table has that column, lastPrice.
AllColumns == {"strike", "lastPrice", "impliedVolatility", "volume", "openInterest"}

RequiredColumns == {"strike", "impliedVolatility"}

\* for greek in ['Delta', 'Gamma', 'Vega', 'Theta', 'Rho']:
\*     filtered_options[greek.lower()] = ...
GreekColumns == {"delta", "gamma", "vega", "theta", "rho"}

\* The columns that st.dataframe is given (lines 79-83).
DisplayColumns ==
    {"strike", "lastPrice", "theoreticalPrice", "priceDiff", "priceDiffPct",
     "impliedVolatility", "volume", "openInterest", "delta", "gamma", "theta"}

\* No table.
NoTable == [columns |-> {}, rows |-> <<>>]

\* Lines 29-56, of one row: the row with its theoreticalPrice p and its greeks g,
\* or the exception that computing them raised.
WithPrice(row, p, g) ==
    IF p.st = "raise" THEN p
    ELSE IF g.st = "raise" THEN g
    ELSE Returned([theoreticalPrice |-> p.val, delta |-> g.val["Delta"],
                   gamma |-> g.val["Gamma"], vega |-> g.val["Vega"],
                   theta |-> g.val["Theta"], rho |-> g.val["Rho"]] @@ row)

\* Lines 29-56, of the rows priced one by one: the rows, or the exception of
\* the first row that raises one.
FirstRaise(priced) ==
    IF \E i \in DOMAIN priced : priced[i].st = "raise"
    THEN priced[CHOOSE i \in DOMAIN priced :
                    /\ priced[i].st = "raise"
                    /\ \A j \in 1..(i - 1) : priced[j].st # "raise"]
    ELSE Returned([i \in DOMAIN priced |-> priced[i].val])

\* Lines 29-56: theoreticalPrice and the greeks of every row.
PriceRows(rows, kind, current, years, r) ==
    FirstRaise([i \in 1..Len(rows) |->
        WithPrice(rows[i],
                  black_scholes_price(current, rows[i].strike, years, r,
                                      rows[i].impliedVolatility, kind),
                  black_scholes_greeks(current, rows[i].strike, years, r,
                                       rows[i].impliedVolatility, kind))])

\* Lines 73-75: priceDiff = theoreticalPrice - lastPrice,
\* priceDiffPct = (priceDiff / lastPrice) * 100.
WithPriceDiff(row) ==
    LET diff == FSub(row.theoreticalPrice, Fin(row.lastPrice))
    IN  [priceDiff |-> diff,
         priceDiffPct |-> FMul(FDiv(diff, Fin(row.lastPrice)), Fin(100 * SC))] @@ row

\* Lines 72-96, of the priced table: the price difference when the table has
\* a lastPrice, the selection of DisplayColumns, a KeyError when one of them is
\* not a column of the table, and the return of the table.
Shown(columns, rows) ==
    LET with == "lastPrice" \in columns
        columns2 == IF with THEN columns \cup {"priceDiff", "priceDiffPct"} ELSE columns
        rows2 == IF with THEN [i \in 1..Len(rows) |-> WithPriceDiff(rows[i])] ELSE rows
    IN  IF DisplayColumns \subseteq columns2
        THEN Returned([columns |-> columns2, rows |-> rows2])
        ELSE Raised("KeyError")

\* Lines 28-96 of the Black-Scholes branch: an exception of the pricing
\* propagates, the priced table is shown otherwise.
ShownPriced(columns, priced) ==
    IF priced.st = "raise" THEN priced ELSE Shown(columns, priced.val)

\* display_options(options_df, option_type, current_price, years_to_expiry, r,
\* model, N): the calls of the lattice pricer that it makes, and its outcome.
\* When no row is kept, apply(..., axis=1) gives back a table, not a column,
\* and pandas may refuse its assignment to theoreticalPrice with a ValueError
\* (it does for a table of several columns); both outcomes are kept.
display_options(options_df, option_type, current, years, r, model, N) ==
    LET kept == SelectRows(options_df.rows, current)
        kind == Lower(option_type)
    IN  (IF kept = <<>> THEN {[calls |-> <<>>, out |-> Raised("ValueError")]} ELSE {})
        \cup
        (IF model = PricingModels[1]
         THEN {[calls |-> <<>>,
                out |-> ShownPriced(options_df.columns \cup {"theoreticalPrice"}
                                        \cup GreekColumns,
                                    PriceRows(kept, kind, current, years, r))]}
         ELSE {[calls |-> cs,
                out |-> IF cs # <<>> /\ cs[Len(cs)].out.st = "raise"
                        THEN Raised(cs[Len(cs)].out.val)
                        ELSE Shown(options_df.columns \cup {"theoreticalPrice"},
                                   [i \in 1..Len(kept) |->
                                       [theoreticalPrice |-> cs[i].out.val.price]
                                           @@ kept[i]])] :
                cs \in ApplyLattice(kept, kind, current, years, r, N, <<>>)})

(***************************************************************************)
(* The inputs the pricer is called with: a grid around the example of      *)
(* black_scholes.py's __main__ (S = 150, K = 160, T = 0.5, r = 0.02,       *)
(* sigma = 0.25), reaching T <= 0, sigma <= 0 and S = K.                   *)
(***************************************************************************)
MaxSpotIdx == 2

MaxStrikeIdx == 0

MaxTimeIdx == 2

MaxRateIdx == 1

MaxSigmaIdx == 2

Spots == {150 * SC + i * 10 * SC : i \in 0..MaxSpotIdx}

Strikes == {160 * SC + i * 10 * SC : i \in 0..MaxStrikeIdx}

Times == {(i - 1) * (SC \div 2) : i \in 0..MaxTimeIdx}

Rates == {i * (SC \div 50) : i \in 0..MaxRateIdx}

Sigmas == {(i - 1) * (SC \div 4) : i \in 0..MaxSigmaIdx}

\* "straddle" stands for any option_type that is neither "call" nor "put".
Kinds == {"call", "put", "straddle"}

ArgSet == [S : Spots, K : Strikes, T : Times, r : Rates, sigma : Sigmas]

\* The example of black_scholes.py's __main__: S = 150, K = 160, T = 0.5,
\* r = 0.02, sigma = 0.25.
ExampleArgs ==
    [S |-> 150 * SC, K |-> 160 * SC, T |-> SC \div 2, r |-> SC \div 50,
     sigma |-> SC \div 4]

(***************************************************************************)
(* get_options_chain of src/data/fetch_data.py, and the session cache of   *)
(* src/ui/app.py.                                                          *)
(***************************************************************************)
\* stock.option_chain(exp).calls and .puts of yf.Ticker(ticker): the table,
\* as what it is the table of.
QuoteTable(ticker, exp, side) == [ticker |-> ticker, expiration |-> exp, side |-> side]

\* What the two calls of stock.option_chain(exp) of one expiration do: both
\* return, the first (for the calls) raises, or the second (for the puts) does.
Answers == {"both", "calls_raise", "puts_raise"}

\* A slip: the first failure ends the loop.
RECURSIVE FetchAll_abort(_, _, _, _)
FetchAll_abort(ticker, expirations, answers, chain) ==
    IF expirations = <<>> \/ Head(answers) # "both" THEN chain
    ELSE FetchAll_abort(ticker, Tail(expirations), Tail(answers),
                        (Head(expirations) :>
                            [calls |-> QuoteTable(ticker, Head(expirations), "calls"),
                             puts |-> QuoteTable(ticker, Head(expirations), "puts")])
                        @@ chain)

\* Lines 43-49: for exp in expirations, options_data[exp] = {"calls": calls,
\* "puts": puts} once both tables are fetched; an exception of either fetch
\* is printed and the loop goes on.
RECURSIVE FetchAll(_, _, _, _)
FetchAll(ticker, expirations, answers, chain) ==
    IF expirations = <<>> THEN chain
    ELSE FetchAll(ticker, Tail(expirations), Tail(answers),
                  IF Head(answers) = "both"
                  THEN (Head(expirations) :>
                           [calls |-> QuoteTable(ticker, Head(expirations), "calls"),
                            puts |-> QuoteTable(ticker, Head(expirations), "puts")])
                       @@ chain
                  ELSE chain)

\* get_options_chain(ticker), when stock.options is expirations and the
\* fetches of expirations[i] do answers[i].
get_options_chain(ticker, expirations, answers) ==
    IF expirations = <<>> THEN Raised("ValueError")
    ELSE Returned(FetchAll(ticker, expirations, answers, <<>>))

\* st.session_state before anything is stored in it: the keys it holds, and
\* the values of the keys that the script stores.
NoSession == [keys |-> {}, options_data |-> <<>>, current_ticker |-> ""]

\* Line 93: load_data or 'options_data' in st.session_state
Enters(session, load_data) == load_data \/ "options_data" \in session.keys

\* A slip: a change of the ticker does not count.
Stale_uncached(session, ticker) == "options_data" \notin session.keys

\* Line 105: 'options_data' not in st.session_state or
\* st.session_state.get('current_ticker') != ticker
Stale(session, ticker) ==
    \/ "options_data" \notin session.keys
    \/ "current_ticker" \notin session.keys
    \/ session.current_ticker # ticker

\* Lines 107-108: st.session_state.options_data = options_data;
\* st.session_state.current_ticker = ticker
Cached(session, chain, ticker) ==
    [keys |-> session.keys \cup {"options_data", "current_ticker"},
     options_data |-> chain, current_ticker |-> ticker]

\* volatility_surface_tab, option_price_surface_tab and greeks_surface_tab:
\* 'options_data' in st.session_state and 'current_price' in st.session_state
SurfaceTabRenders(session) == {"options_data", "current_price"} \subseteq session.keys

VARIABLES
    args,      \* the arguments (S, K, T, r, sigma) of the calls below
    price,     \* price[kind]: what black_scholes_price returned or raised
    greeks     \* greeks[kind]: what black_scholes_greeks returned or raised

VARIABLES
    pricing_model, \* app.py: the model chosen with the radio button
    n_steps,       \* app.py: the step count of the script's last run
    lattice        \* the calls of american_option_binomial made by the last
                   \* operation, in order: caller, arguments and outcome

VARIABLES
    options_df,    \* the quote table that display_options is given
    displayed      \* the last call of display_options: its option_type, model
                   \* and step count, and what it returned or raised

VARIABLES
    session_state, \* st.session_state: the keys it holds, and their values
    run,           \* the last run of the script: its inputs, the session it
                   \* started with, and its call of get_options_chain
    fetched        \* the last call of get_options_chain outside the script:
                   \* its inputs, and what it returned or raised

vars == <<args, price, greeks, now, options_data, current_price, strike_range, surf,
          locals, pricing_model, n_steps, lattice, options_df, displayed,
          session_state, run, fetched>>

sessionVars == <<session_state, run, fetched>>

displayVars == <<options_df, displayed>>

latticeVars == <<pricing_model, n_steps, lattice>>

pricerVars == <<args, price, greeks>>

surfaceVars == <<now, options_data, current_price, strike_range, surf, locals>>

(***************************************************************************)
(* The inputs the surface builder is called with.  options_data holds the  *)
(* first expirations of DateOrder, up to MaxExps of them, in that order    *)
(* (which is not the sorted one), and at most MaxRows quotes in all, which *)
(* go to the calls and the puts of their expirations in turn.  The values  *)
(* are chosen so that nodes fall half way between observations: with the   *)
(* days 1, 3 and 8 the day axis has 15 nodes 1/2 apart, and node 2 is as   *)
(* far from day 1 as from day 3; the strike axis from 90 to 139, or from   *)
(* 95 to 144, has its 50 nodes 1 apart, and node 100 is as far from strike *)
(* 95 as from strike 105; so is the price 100.  Besides these, it holds    *)
(* ManyExps expirations with one quote, which brings day_points to its cap.*)
(***************************************************************************)
MaxExps == 3

ManyExps == 11

MaxRows == 2

MaxNow == 1

DateOrder == <<1, 8, 3, 15, 22, 29, 36, 43, 50, 57, 64, 71>>

\* The first n expiration dates.
ExpDates(n) == SubSeq(DateOrder, 1, IF n < Len(DateOrder) THEN n ELSE Len(DateOrder))

QuoteStrikes == {95, 105, 144}

IvVals == {NaN, Fin(0), Fin(SC \div 10), Fin(SC \div 5)}

\* The rows quoted: every strike at every volatility of IvVals, and one row
\* with an infinite volatility.
Rows == [strike : QuoteStrikes, iv : IvVals] \cup {[strike |-> 105, iv |-> PInf]}

Prices == {100, 140}

Ranges == {<<>>, <<90, 139>>}

\* The table the k-th quote goes to.
SideOf(k) == IF k % 2 = 1 THEN "calls" ELSE "puts"

\* The rows of ts that belong to one table, in order.
TableOf(ts, date, side) ==
    LET idx == {k \in 1..Len(ts) : ts[k].date = date /\ SideOf(k) = side}
    IN  [i \in 1..Cardinality(idx) |->
            ts[CHOOSE k \in idx : Cardinality({k2 \in idx : k2 < k}) = i - 1].row]

ChainOf(dates, ts) ==
    [i \in 1..Len(dates) |->
        [exp |-> dates[i],
         calls |-> TableOf(ts, dates[i], "calls"),
         puts |-> TableOf(ts, dates[i], "puts")]]

\* Every options_data of at most e expirations with at most n rows in all.
Chains(e, n) ==
    UNION {
        {ChainOf(ExpDates(c), ts) :
            ts \in UNION {[1..m -> [date : SeqRange(ExpDates(c)), row : Rows]] :
                            m \in 0..n}} :
        c \in 0..e}

\* Every options_data of e expirations with one quote, of the first or the
\* last of them.
LongChains(e) ==
    {ChainOf(ExpDates(e), <<[date |-> d, row |-> row]>>) :
        d \in {ExpDates(e)[1], ExpDates(e)[Len(ExpDates(e))]}, row \in Rows}

Init ==
    /\ args \in ArgSet
    /\ price = [kd \in Kinds |-> NotCalled]
    /\ greeks = [kd \in Kinds |-> NotCalled]
    /\ now = 0
    /\ options_data = <<>>
    /\ current_price = 100
    /\ strike_range = <<>>
    /\ surf = NotCalled
    /\ locals = NotCalled
    /\ pricing_model = PricingModels[1]
    /\ n_steps = default_steps
    /\ lattice = <<>>
    /\ options_df = NoTable
    /\ displayed = NotCalled
    /\ session_state = NoSession
    /\ run = NotCalled
    /\ fetched = NotCalled

CallPrice(kd) ==
    /\ price' = [price EXCEPT ![kd] =
                    black_scholes_price(args.S, args.K, args.T, args.r, args.sigma, kd)]
    /\ UNCHANGED <<args, greeks>>
    /\ UNCHANGED surfaceVars
    /\ UNCHANGED latticeVars
    /\ UNCHANGED displayVars
    /\ UNCHANGED sessionVars

CallGreeks(kd) ==
    /\ greeks' = [greeks EXCEPT ![kd] =
                    black_scholes_greeks(args.S, args.K, args.T, args.r, args.sigma, kd)]
    /\ UNCHANGED <<args, price>>
    /\ UNCHANGED surfaceVars
    /\ UNCHANGED latticeVars
    /\ UNCHANGED displayVars
    /\ UNCHANGED sessionVars

Next ==
    \/ \E kd \in Kinds : CallPrice(kd)
    \/ \E kd \in Kinds : CallGreeks(kd)

Spec == Init /\ [][Next]_vars

SurfInit ==
    /\ args = [S |-> 150 * SC, K |-> 160 * SC, T |-> SC \div 2,
               r |-> SC \div 50, sigma |-> SC \div 4]
    /\ price = [kd \in Kinds |-> NotCalled]
    /\ greeks = [kd \in Kinds |-> NotCalled]
    /\ now = 0
    /\ options_data \in Chains(MaxExps, MaxRows) \cup LongChains(ManyExps)
    /\ current_price \in Prices
    /\ strike_range \in Ranges
    /\ surf = NotCalled
    /\ locals = NotCalled
    /\ pricing_model = PricingModels[1]
    /\ n_steps = default_steps
    /\ lattice = <<>>
    /\ options_df = NoTable
    /\ displayed = NotCalled
    /\ session_state = NoSession
    /\ run = NotCalled
    /\ fetched = NotCalled

\* Time passes.
Tick ==
    /\ now < MaxNow
    /\ now' = now + 1
    /\ UNCHANGED <<options_data, current_price, strike_range, surf, locals>>
    /\ UNCHANGED pricerVars
    /\ UNCHANGED latticeVars
    /\ UNCHANGED displayVars
    /\ UNCHANGED sessionVars

\* A call of interpolate_volatility_surface(options_data, current_price, strike_range).
CallSurface ==
    /\ surf' = interpolate_volatility_surface(options_data, current_price, strike_range)
    /\ locals' = LocalsOf(options_data, current_price, strike_range)
    /\ UNCHANGED <<now, options_data, current_price, strike_range>>
    /\ UNCHANGED pricerVars
    /\ UNCHANGED latticeVars
    /\ UNCHANGED displayVars
    /\ UNCHANGED sessionVars

SurfNext == Tick \/ CallSurface

SurfSpec == SurfInit /\ [][SurfNext]_vars

(***************************************************************************)
(* The script of app.py and its calls of display_options, beside direct    *)
(* calls of the lattice pricer.  The quotes shown are one row at the       *)
(* strike and volatility of args and one row at half that strike, which    *)
(* is not near the money, in a table of all the columns; the current       *)
(* price, the time to expiry and the                                       *)
(* rate are those of args, taken at the spot and the rate of the example   *)
(* of black_scholes.py.                                                    *)
(***************************************************************************)
MaxSteps == 3

\* The step counts of the direct calls: -1, 0 and the lattices of 1 to MaxSteps steps.
StepCounts == (0 - 1)..MaxSteps

OptionTypes == {"Call", "Put"}

\* The price that the quotes last traded at.
LastPrice == 10 * SC

QuotesOf(a) ==
    <<[strike |-> a.K, impliedVolatility |-> a.sigma, lastPrice |-> LastPrice],
      [strike |-> a.K \div 2, impliedVolatility |-> a.sigma, lastPrice |-> LastPrice]>>

AppArgSet == {a \in ArgSet : a.S = ExampleArgs.S /\ a.r = ExampleArgs.r}

AppInit ==
    /\ args \in AppArgSet
    /\ price = [kd \in Kinds |-> NotCalled]
    /\ greeks = [kd \in Kinds |-> NotCalled]
    /\ now = 0
    /\ options_data = <<>>
    /\ current_price = 100
    /\ strike_range = <<>>
    /\ surf = NotCalled
    /\ locals = NotCalled
    /\ pricing_model = PricingModels[1]
    /\ n_steps = default_steps
    /\ lattice = <<>>
    /\ options_df = [columns |-> AllColumns, rows |-> QuotesOf(args)]
    /\ displayed = NotCalled
    /\ session_state = NoSession
    /\ run = NotCalled
    /\ fetched = NotCalled

\* The radio button is set to m and the script runs again: the slider is
\* shown with the binomial model only, and starts at its value when it is shown
\* anew.
SelectModel(m) ==
    /\ m # pricing_model
    /\ pricing_model' = m
    /\ n_steps' = IF m = PricingModels[2] THEN slider_value ELSE default_steps
    /\ UNCHANGED lattice
    /\ UNCHANGED pricerVars
    /\ UNCHANGED surfaceVars
    /\ UNCHANGED displayVars
    /\ UNCHANGED sessionVars

\* The slider is moved to v and the script runs again.
MoveSlider(v) ==
    /\ pricing_model = PricingModels[2]
    /\ v # n_steps
    /\ n_steps' = v
    /\ UNCHANGED <<pricing_model, lattice>>
    /\ UNCHANGED pricerVars
    /\ UNCHANGED surfaceVars
    /\ UNCHANGED displayVars
    /\ UNCHANGED sessionVars

\* display_options(calls or puts, option_type, current_price, years_to_expiry,
\* r, pricing_model, n_steps), as the script calls it.
DisplayOptions(option_type) ==
    /\ \E res \in display_options(options_df, option_type, args.S, args.T, args.r,
                                   pricing_model, n_steps) :
          /\ lattice' = res.calls
          /\ displayed' = [option_type |-> option_type, model |-> pricing_model,
                           steps |-> n_steps, out |-> res.out]
    /\ UNCHANGED <<pricing_model, n_steps, options_df>>
    /\ UNCHANGED sessionVars
    /\ UNCHANGED pricerVars
    /\ UNCHANGED surfaceVars

\* A call of american_option_binomial(S, K, r, T, sigma, N, kd) by another caller.
CallLattice(N, kd) ==
    /\ lattice' \in {<<Invocation("direct", args.S, args.K, args.r, args.T, args.sigma,
                                  N, kd, out)>> :
                        out \in american_option_binomial(args.S, args.K, args.r, args.T,
                                                         args.sigma, N, kd)}
    /\ UNCHANGED <<pricing_model, n_steps>>
    /\ UNCHANGED pricerVars
    /\ UNCHANGED surfaceVars
    /\ UNCHANGED displayVars
    /\ UNCHANGED sessionVars

AppNext ==
    \/ \E m \in SeqRange(PricingModels) : SelectModel(m)
    \/ \E v \in SliderValues : MoveSlider(v)
    \/ \E option_type \in OptionTypes : DisplayOptions(option_type)
    \/ \E N \in StepCounts, kd \in Kinds : CallLattice(N, kd)

AppSpec == AppInit /\ [][AppNext]_vars

(***************************************************************************)
(* The two pricers called on the same inputs: black_scholes_price and the  *)
(* lattice pricer, on the inputs of the pricer above.                      *)
(***************************************************************************)
LatInit ==
    /\ args \in ArgSet
    /\ price = [kd \in Kinds |-> NotCalled]
    /\ greeks = [kd \in Kinds |-> NotCalled]
    /\ now = 0
    /\ options_data = <<>>
    /\ current_price = 100
    /\ strike_range = <<>>
    /\ surf = NotCalled
    /\ locals = NotCalled
    /\ pricing_model = PricingModels[1]
    /\ n_steps = default_steps
    /\ lattice = <<>>
    /\ options_df = NoTable
    /\ displayed = NotCalled
    /\ session_state = NoSession
    /\ run = NotCalled
    /\ fetched = NotCalled

LatNext ==
    \/ \E kd \in Kinds : CallPrice(kd)
    \/ \E N \in StepCounts, kd \in Kinds : CallLattice(N, kd)

LatSpec == LatInit /\ [][LatNext]_vars

(***************************************************************************)
(* display_options called on a table of quotes, with either model and a    *)
(* step count from 1 to MaxSteps.  The table has all the columns or the    *)
(* required ones only, and rows at the strike of args, at half that        *)
(* strike, at 0.8 and at 1.2 times the current price, and just beyond      *)
(* these two.                                                              *)
(***************************************************************************)
\* The least difference of two strikes.
Ulp == 1

StrikesOf(a) ==
    <<a.K, a.K \div 2, MulQ(a.S, 8 * (SC \div 10)), MulQ(a.S, 12 * (SC \div 10)),
      MulQ(a.S, 8 * (SC \div 10)) - Ulp, MulQ(a.S, 12 * (SC \div 10)) + Ulp>>

QuoteTables(a) ==
    {[columns |-> AllColumns,
      rows |-> [i \in 1..Len(StrikesOf(a)) |->
                   [strike |-> StrikesOf(a)[i], impliedVolatility |-> a.sigma,
                    lastPrice |-> LastPrice]]],
     [columns |-> RequiredColumns,
      rows |-> [i \in 1..Len(StrikesOf(a)) |->
                   [strike |-> StrikesOf(a)[i], impliedVolatility |-> a.sigma]]],
     [columns |-> AllColumns, rows |-> <<>>]}

DispInit ==
    /\ args \in ArgSet
    /\ price = [kd \in Kinds |-> NotCalled]
    /\ greeks = [kd \in Kinds |-> NotCalled]
    /\ now = 0
    /\ options_data = <<>>
    /\ current_price = 100
    /\ strike_range = <<>>
    /\ surf = NotCalled
    /\ locals = NotCalled
    /\ pricing_model = PricingModels[1]
    /\ n_steps = default_steps
    /\ lattice = <<>>
    /\ options_df \in QuoteTables(args)
    /\ displayed = NotCalled
    /\ session_state = NoSession
    /\ run = NotCalled
    /\ fetched = NotCalled

\* display_options(options_df, option_type, args.S, args.T, args.r, model, N)
CallDisplay(option_type, model, N) ==
    /\ \E res \in display_options(options_df, option_type, args.S, args.T, args.r,
                                   model, N) :
          /\ lattice' = res.calls
          /\ displayed' = [option_type |-> option_type, model |-> model,
                           steps |-> N, out |-> res.out]
    /\ UNCHANGED <<pricing_model, n_steps, options_df>>
    /\ UNCHANGED sessionVars
    /\ UNCHANGED pricerVars
    /\ UNCHANGED surfaceVars

DispNext ==
    \E option_type \in OptionTypes, model \in SeqRange(PricingModels), N \in 1..MaxSteps :
        CallDisplay(option_type, model, N)

DispSpec == DispInit /\ [][DispNext]_vars

(***************************************************************************)
(* The runs of the script of app.py, as far as the session cache goes, and *)
(* get_options_chain called on its own.                                    *)
(***************************************************************************)
\* The tickers that are entered.
Tickers == {"AAPL", "MSFT"}

\* The expiration dates that stock.options lists.
ExpirationDates == {"2026-11-20", "2026-12-18", "2027-01-15"}

\* stock.options: no date, or some of dates, each once, in any order.
ExpirationLists(dates) ==
    {<<>>} \cup {<<a>> : a \in dates}
           \cup {<<c[1], c[2]>> : c \in {c \in dates \X dates : c[1] # c[2]}}
           \cup {c \in dates \X dates \X dates : Cardinality({c[1], c[2], c[3]}) = 3}

\* The dates listed for the runs of the script.
RunDates == {"2026-11-20", "2026-12-18"}

SessInit ==
    /\ args = ExampleArgs
    /\ price = [kd \in Kinds |-> NotCalled]
    /\ greeks = [kd \in Kinds |-> NotCalled]
    /\ now = 0
    /\ options_data = <<>>
    /\ current_price = 100
    /\ strike_range = <<>>
    /\ surf = NotCalled
    /\ locals = NotCalled
    /\ pricing_model = PricingModels[1]
    /\ n_steps = default_steps
    /\ lattice = <<>>
    /\ options_df = NoTable
    /\ displayed = NotCalled
    /\ session_state = NoSession
    /\ run = NotCalled
    /\ fetched = NotCalled

\* One run of the script, lines 93-186, with the ticker of the text input,
\* load_data of the button, stock_ok telling whether get_stock_data and
\* get_stock_info return, and what yfinance answers to get_options_chain.
\* What follows line 113 reads the chain and never stores in the session; an
\* exception anywhere is caught at line 184.
RunScript(ticker, load_data, stock_ok, expirations, answers) ==
    LET called == /\ Enters(session_state, load_data)
                  /\ stock_ok
                  /\ Stale(session_state, ticker)
        out == get_options_chain(ticker, expirations, answers)
    IN  /\ session_state' = IF called /\ out.st = "return"
                            THEN Cached(session_state, out.val, ticker)
                            ELSE session_state
        /\ run' = [ticker |-> ticker, load_data |-> load_data, stock_ok |-> stock_ok,
                   before |-> session_state, called |-> called,
                   out |-> IF called THEN out ELSE NotCalled]
        /\ UNCHANGED fetched
        /\ UNCHANGED pricerVars
        /\ UNCHANGED surfaceVars
        /\ UNCHANGED latticeVars
        /\ UNCHANGED displayVars

\* get_options_chain(ticker)
CallGetOptionsChain(ticker, expirations, answers) ==
    /\ fetched' = [ticker |-> ticker, expirations |-> expirations, answers |-> answers,
                   out |-> get_options_chain(ticker, expirations, answers)]
    /\ UNCHANGED <<session_state, run>>
    /\ UNCHANGED pricerVars
    /\ UNCHANGED surfaceVars
    /\ UNCHANGED latticeVars
    /\ UNCHANGED displayVars

SessNext ==
    \E ticker \in Tickers, expirations \in ExpirationLists(RunDates) :
        \E answers \in [1..Len(expirations) -> Answers] :
            \E load_data \in BOOLEAN, stock_ok \in BOOLEAN :
                RunScript(ticker, load_data, stock_ok, expirations, answers)

SessSpec == SessInit /\ [][SessNext]_vars

FetchNext ==
    \E ticker \in Tickers, expirations \in ExpirationLists(ExpirationDates) :
        \E answers \in [1..Len(expirations) -> Answers] :
            CallGetOptionsChain(ticker, expirations, answers)

FetchSpec == SessInit /\ [][FetchNext]_vars

(***************************************************************************)
(* Properties of the pricer.                                               *)
(***************************************************************************)
ValidKinds == {"call", "put"}

GreekNames == {"Delta", "Gamma", "Vega", "Theta", "Rho"}

\* C1: with T <= 0, black_scholes_price returns exactly the intrinsic value:
\* max(0, spot - strike) for a call and max(0, strike - spot) for a put,
\* whatever the volatility and the rate.
C1_IntrinsicAtExpiry ==
    args.T <= 0 =>
        /\ price["call"].st # "none" =>
              price["call"] = Returned(Fin(IF args.S > args.K THEN args.S - args.K ELSE 0))
        /\ price["put"].st # "none" =>
              price["put"] = Returned(Fin(IF args.K > args.S THEN args.K - args.S ELSE 0))

\* spot = 170, strike = 160, T = 0, call: the price is 10.
C1_Witness ==
    /\ args.S = 170 * SC /\ args.K = 160 * SC /\ args.T = 0
    /\ price["call"] = Returned(Fin(10 * SC))

\* C2: black_scholes_price raises for an option kind that is neither call nor
\* put, for every T; it never returns a price for such a kind.
C2_InvalidKindRaises ==
    price["straddle"].st # "none" => price["straddle"].st = "raise"

\* C3: black_scholes_greeks raises for an option kind that is neither call nor
\* put; it never returns Greeks for such a kind.
C3_GreeksInvalidKindRaises ==
    greeks["straddle"].st # "none" => greeks["straddle"].st = "raise"

\* C4: with T > 0 and volatility <= 0, black_scholes_price and
\* black_scholes_greeks never return NaN or an infinite value.
C4_NoNaNAtZeroVolatility ==
    (args.T > 0 /\ args.sigma <= 0) =>
        \A kd \in ValidKinds :
            /\ price[kd].st = "return" => IsFin(price[kd].val)
            /\ greeks[kd].st = "return" =>
                  \A g \in GreekNames : IsFin(greeks[kd].val[g])

\* C5: black_scholes_greeks returns a mapping with exactly the five keys Delta,
\* Gamma, Vega, Theta, Rho, for every input and kind, and with T <= 0 all five
\* are zero.
C5_GreeksKeys ==
    \A kd \in Kinds :
        greeks[kd].st # "none" =>
            /\ greeks[kd].st = "return"
            /\ DOMAIN greeks[kd].val = GreekNames
            /\ args.T <= 0 => \A g \in GreekNames : greeks[kd].val[g] = Fin(0)

C5_Witness ==
    /\ args.T = 0 /\ args.sigma = 0
    /\ greeks["put"].st = "return" /\ greeks["straddle"].st = "return"
    /\ greeks["put"].val["Gamma"] = Fin(0)

\* C6: for spot > 0, strike > 0, T >= 0, volatility >= 0 and a kind in
\* {call, put}, the Greeks satisfy Gamma >= 0, Vega >= 0, Delta in [0, 1] for
\* a call and Delta in [-1, 0] for a put.
C6_GreekSigns ==
    (args.S > 0 /\ args.K > 0 /\ args.T >= 0 /\ args.sigma >= 0) =>
        \A kd \in ValidKinds :
            greeks[kd].st = "return" =>
                /\ FLe(Zero, greeks[kd].val["Gamma"])
                /\ FLe(Zero, greeks[kd].val["Vega"])
                /\ kd = "call" => /\ FLe(Zero, greeks[kd].val["Delta"])
                                  /\ FLe(greeks[kd].val["Delta"], Fin(SC))
                /\ kd = "put" => /\ FLe(Fin(-SC), greeks[kd].val["Delta"])
                                 /\ FLe(greeks[kd].val["Delta"], Zero)

\* C7: Rho is the derivative of the price with respect to the rate: for T > 0
\* and strike > 0 it is >= 0 for a call and <= 0 for a put.  (Stated for a
\* positive volatility, where d1 and d2 are finite.)
C7_RhoSign ==
    (args.T > 0 /\ args.K > 0 /\ args.sigma > 0) =>
        /\ greeks["call"].st = "return" => FLe(Zero, greeks["call"].val["Rho"])
        /\ greeks["put"].st = "return" => FLe(greeks["put"].val["Rho"], Zero)

\* The resolution the parity is checked to: 1e-5.
ParityTol == SC \div 100000

\* C8: put-call parity.  For T > 0 and volatility > 0 the call price minus the
\* put price equals spot - strike * e^(-rate * T) within the tolerance; for
\* T <= 0 the difference of the two intrinsic values equals spot - strike.
C8_PutCallParity ==
    (price["call"].st = "return" /\ price["put"].st = "return") =>
        /\ args.T <= 0 =>
              price["call"].val.v - price["put"].val.v = args.S - args.K
        /\ (args.T > 0 /\ args.sigma > 0) =>
              /\ IsFin(price["call"].val) /\ IsFin(price["put"].val)
              /\ Abs((price["call"].val.v - price["put"].val.v)
                     - (args.S - DiscountedStrike(args.K, args.T, args.r).v))
                    <= ParityTol

C8_Witness ==
    /\ args.T > 0 /\ args.sigma > 0 /\ args.r > 0
    /\ price["call"].st = "return" /\ price["put"].st = "return"
    /\ price["call"].val.v > 0 /\ price["put"].val.v > price["call"].val.v

\* x is within tol of the number num / 100.
Near(x, num, tol) == IsFin(x) /\ Abs(x.v - num * (SC \div 100)) <= tol

\* The price is given to within 0.05; "approximately" is read as the rounding
\* of the digits given: 0.005 for Delta, 0.05 for Vega.
PriceTol == SC \div 20

DeltaTol == SC \div 200

VegaTol == SC \div 20

\* C18, as the claim states it: for the example and a call, the price is
\* within 0.05 of 8.47, Delta is approximately 0.42 and Vega approximately 40.2.
C18_ExampleAsStated ==
    args = ExampleArgs =>
        /\ price["call"].st # "none" =>
              price["call"].st = "return" /\ Near(price["call"].val, 847, PriceTol)
        /\ greeks["call"].st # "none" =>
              /\ greeks["call"].st = "return"
              /\ Near(greeks["call"].val["Delta"], 42, DeltaTol)
              /\ Near(greeks["call"].val["Vega"], 4020, VegaTol)

\* C18, amended: for the example and a call, the price is within 0.05 of 7.17,
\* Delta is approximately 0.41 and Vega approximately 41.3.
C18_Example ==
    args = ExampleArgs =>
        /\ price["call"].st # "none" =>
              price["call"].st = "return" /\ Near(price["call"].val, 717, PriceTol)
        /\ greeks["call"].st # "none" =>
              /\ greeks["call"].st = "return"
              /\ Near(greeks["call"].val["Delta"], 41, DeltaTol)
              /\ Near(greeks["call"].val["Vega"], 4130, VegaTol)

C18_Witness ==
    /\ args = ExampleArgs
    /\ price["call"].st = "return" /\ greeks["call"].st = "return"
    /\ Near(price["call"].val, 717, PriceTol)
    /\ Near(greeks["call"].val["Vega"], 4130, VegaTol)

(***************************************************************************)
(* Properties of the surface builder.                                      *)
(***************************************************************************)
\* C10: surface idempotence.  Two calls of interpolate_volatility_surface with
\* the same options_data, current_price and strike_range return identical axes
\* and identical surface values.  (The arguments never change in SurfSpec, so
\* every call after the first repeats them.)
C10_SurfaceIdempotent ==
    [][(surf.st = "return" /\ surf'.st = "return") => surf' = surf]_vars

\* What the claims call the surface: the grid the latest call returned.
Grid == surf.val

DayNodes == 1..Len(Grid.days)

StrikeNodes == 1..Len(Grid.strikes)

ObservedDays == SeqRange(locals.all_days)

ObservedStrikes == SeqRange(locals.all_strikes)

\* The lookup table of the call.
Table == locals.iv_data

\* |x - num/den|, times den.
Dist(x, num, den) == Abs(den * x - num)

\* The element of S nearest to num/den by absolute difference; of several
\* equally near, the numerically smallest.
Nearest(S, num, den) ==
    SetMin({x \in S : \A y \in S : Dist(x, num, den) <= Dist(y, num, den)})

\* d* for each node of the day axis and s* for each node of the strike axis.
NearestDays == [i \in DayNodes |-> Nearest(ObservedDays, Grid.days[i], Grid.dayDen)]

NearestStrikes ==
    [j \in StrikeNodes |-> Nearest(ObservedStrikes, Grid.strikes[j], Grid.strikeDen)]

\* The observed strike nearest to the current price.
AtmStrike == Nearest(ObservedStrikes, current_price, 1)

\* The quotes of the table whose day is d.
DayGroup(d) == {key \in DOMAIN Table : key[1] = d}

RECURSIVE SumOver(_)
SumOver(keys) ==
    IF keys = {} THEN 0
    ELSE LET key == CHOOSE k \in keys : TRUE
         IN  Table[key].v + SumOver(keys \ {key})

\* x is the arithmetic mean of the quotes of keys, to the resolution of the
\* fixed point.
IsMeanOf(x, keys) ==
    IF \E key \in keys : ~IsFin(Table[key]) THEN x = PInf
    ELSE /\ IsFin(x)
         /\ 2 * Abs(Cardinality(keys) * x.v - SumOver(keys)) <= Cardinality(keys)

\* C11: for every grid node (d, s), with d* the observed day nearest to d and
\* s* the observed strike nearest to s, if the lookup table has a quote at
\* (d*, s*) the node's value is exactly that quote's implied volatility.
C11_DirectQuote ==
    surf.st = "return" =>
        \A dstar \in {NearestDays}, sstar \in {NearestStrikes} :
            \A i \in DayNodes, j \in StrikeNodes :
                <<dstar[i], sstar[j]>> \in DOMAIN Table =>
                    Grid.vol[j][i] = Table[<<dstar[i], sstar[j]>>]

\* Two quotes of different days and strikes, each the value of the nodes
\* nearest to it and of no node nearest to the other.
C11_Witness ==
    /\ surf.st = "return"
    /\ \E k1, k2 \in DOMAIN Table :
          /\ k1[1] # k2[1] /\ k1[2] # k2[2] /\ Table[k1] # Table[k2]
          /\ \E i \in DayNodes, j \in StrikeNodes :
                /\ NearestDays[i] = k1[1] /\ NearestStrikes[j] = k1[2]
                /\ Grid.vol[j][i] = Table[k1]
          /\ \E i \in DayNodes, j \in StrikeNodes :
                /\ NearestDays[i] = k2[1] /\ NearestStrikes[j] = k2[2]
                /\ Grid.vol[j][i] = Table[k2]

SelectedByValue(x, S, num, den) ==
    /\ x \in S
    /\ \A y \in S : Dist(x, num, den) <= Dist(y, num, den)
    /\ \A y \in S : Dist(y, num, den) = Dist(x, num, den) => x <= y

\* Two elements of S are equally near to num/den, and none is nearer.
Tie(S, num, den) ==
    \E x, y \in S :
        /\ x # y /\ Dist(x, num, den) = Dist(y, num, den)
        /\ \A z \in S : Dist(x, num, den) <= Dist(z, num, den)

\* C13: tie-breaking is by numeric value: when a grid node (or the price, for
\* atm_strike) is equidistant from two observed days or strikes, the smaller
\* candidate is selected, whatever the order of the quotes in the input.
C13_TieBreaking ==
    surf.st = "return" =>
        /\ \A i \in DayNodes :
              SelectedByValue(locals.closest_day[i], ObservedDays,
                              Grid.days[i], Grid.dayDen)
        /\ \A j \in StrikeNodes :
              SelectedByValue(locals.closest_strike[j], ObservedStrikes,
                              Grid.strikes[j], Grid.strikeDen)
        /\ SelectedByValue(locals.atm_strike[1], ObservedStrikes, current_price, 1)

\* A node of the day axis, a node of the strike axis and the price are each
\* half way between two observations, and the input lists a later expiration
\* before an earlier one and a higher strike before a lower one.
C13_Witness ==
    /\ surf.st = "return"
    /\ \E i \in DayNodes : Tie(ObservedDays, Grid.days[i], Grid.dayDen)
    /\ \E j \in StrikeNodes : Tie(ObservedStrikes, Grid.strikes[j], Grid.strikeDen)
    /\ Tie(ObservedStrikes, current_price, 1)
    /\ \E a, b \in 1..Len(options_data) :
          /\ a < b /\ options_data[a].exp > options_data[b].exp
          /\ options_data[a].calls # <<>> /\ options_data[b].puts # <<>>
          /\ options_data[a].calls[1].strike > options_data[b].puts[1].strike

\* The quotes the call can use: of an expiration after today, inside the
\* strike range if one is given, with an implied volatility that is a
\* positive number.
UsableQuotes ==
    {q \in [e : 1..Len(options_data), side : {"calls", "puts"}, k : 1..MaxRows] :
        /\ q.k <= Len(options_data[q.e][q.side])
        /\ (options_data[q.e].exp * TicksPerDay - locals.today) \div TicksPerDay > 0
        /\ LET row == options_data[q.e][q.side][q.k]
           IN  /\ strike_range # <<>> =>
                     (strike_range[1] <= row.strike /\ row.strike <= strike_range[2])
               /\ ~IsNaN(row.iv) /\ FLt(Zero, row.iv)}

\* C14: interpolate_volatility_surface fails with an error, and returns no
\* grid, whenever the collection of usable quotes is empty: no expirations,
\* only past expirations, or every quote removed by the strike-range or the
\* implied-volatility filter, with or without a strike_range.
C14_EmptyInputRaises ==
    (surf.st # "none" /\ UsableQuotes = {}) => surf.st = "raise"

\* A strike_range is given, an expiration lies ahead and has a quote, and the
\* filters remove every quote.
C14_Witness ==
    /\ surf.st = "raise" /\ UsableQuotes = {}
    /\ strike_range # <<>>
    /\ locals.all_days # <<>>
    /\ \E e \in 1..Len(options_data) :
          options_data[e].calls # <<>> /\ IsFin(options_data[e].calls[1].iv)

\* C15: if the day group used in the final (day-mean) fallback has no quotes,
\* interpolate_volatility_surface fails with an error; it never writes NaN
\* (the mean of an empty list) into a grid node.
C15_NoNaNNode ==
    surf.st = "return" =>
        \A j \in StrikeNodes, i \in DayNodes : ~IsNaN(Grid.vol[j][i])

\* C16: after the partition step the observed days are exactly the days that
\* have at least one quote in the lookup table, and the observed strikes
\* exactly the strikes that have one; so the nearest day of any grid node has
\* a non-empty quote group.
C16_ObservedHaveQuotes ==
    locals # NotCalled =>
        /\ ObservedDays = {key[1] : key \in DOMAIN Table}
        /\ ObservedStrikes = {key[2] : key \in DOMAIN Table}

\* The nodes of an axis are the linear partition of [lo, hi] into n points.
LinearPartition(axis, den, lo, hi, n) ==
    /\ Len(axis) = n /\ den = n - 1
    /\ \A k \in 1..n : axis[k] * (n - 1) = den * ((n - 1) * lo + (k - 1) * (hi - lo))

\* C17, as the claim states it: the axes are linear partitions at a fixed
\* resolution of 50 x 50 nodes, independent of how many expirations were
\* observed.
C17_FixedResolution ==
    surf.st = "return" =>
        /\ Len(Grid.strikes) = strike_points
        /\ Len(Grid.days) = MaxDayPoints

\* min(S) and max(S) of a set of numbers.
Lowest(S) == CHOOSE x \in S : \A y \in S : x <= y

Highest(S) == CHOOSE x \in S : \A y \in S : x >= y

\* C17, amended: the strike axis is the linear partition into 50 nodes of the
\* strike_range the caller gave, or of the range of the observed strikes if
\* none was given; the day axis is the linear partition of the range of the
\* observed days into min(50, 5 * n) nodes, n the number of expirations ahead.
C17_Axes ==
    surf.st = "return" =>
        /\ LinearPartition(Grid.strikes, Grid.strikeDen,
                           IF strike_range = <<>> THEN Lowest(ObservedStrikes)
                           ELSE strike_range[1],
                           IF strike_range = <<>> THEN Highest(ObservedStrikes)
                           ELSE strike_range[2],
                           strike_points)
        /\ LinearPartition(Grid.days, Grid.dayDen,
                           Lowest(ObservedDays), Highest(ObservedDays),
                           IF PointsPerDay * Cardinality(ObservedDays) < MaxDayPoints
                           THEN PointsPerDay * Cardinality(ObservedDays)
                           ELSE MaxDayPoints)

\* Eleven expirations ahead: the day axis has 50 nodes, not 55, over the days
\* observed.
C17_Witness ==
    /\ surf.st = "return"
    /\ Cardinality(ObservedDays) > 10
    /\ Len(Grid.days) = MaxDayPoints
    /\ Grid.days[1] = Grid.dayDen * Lowest(ObservedDays)

\* C22: every entry (days, strike) -> iv of the lookup table has days > 0 and
\* an iv that is positive and finite, and a strike within the strike_range
\* when one is given.
C22_TableEntriesValid ==
    locals # NotCalled =>
        \A key \in DOMAIN Table :
            /\ key[1] > 0
            /\ IsFin(Table[key]) /\ Table[key].v > 0
            /\ strike_range # <<>> =>
                  (strike_range[1] <= key[2] /\ key[2] <= strike_range[2])

\* The implied volatilities of the lookup table.
TableValues == {Table[key] : key \in DOMAIN Table}

\* C23: every node value of a returned grid is a positive finite number
\* between the least and the greatest implied volatility of the lookup table.
C23_NodesWithinQuotes ==
    surf.st = "return" =>
        \A j \in StrikeNodes, i \in DayNodes :
            /\ IsFin(Grid.vol[j][i]) /\ Grid.vol[j][i].v > 0
            /\ \E lo \in TableValues : FLe(lo, Grid.vol[j][i])
            /\ \E hi \in TableValues : FLe(Grid.vol[j][i], hi)

\* The days to expiry of expiration e at the time of the call.
DaysOf(e) == (options_data[e].exp * TicksPerDay - locals.today) \div TicksPerDay

\* The quotes of expiration e in processing order: the calls, then the puts.
QuotesInOrder(e) == options_data[e].calls \o options_data[e].puts

\* The positions in QuotesInOrder(e) of the quotes of strike that pass the
\* filters.
ValidAt(e, strike) ==
    {n \in 1..Len(QuotesInOrder(e)) :
        LET row == QuotesInOrder(e)[n]
        IN  /\ row.strike = strike
            /\ ~IsNaN(row.iv) /\ FLt(Zero, row.iv)
            /\ strike_range # <<>> =>
                  (strike_range[1] <= strike /\ strike <= strike_range[2])}

\* C24: for every expiration ahead and every strike, the lookup table holds
\* at (days, strike) the implied volatility of the last valid quote in
\* processing order (calls before puts, rows in table order), and holds
\* nothing there when no quote of that strike is valid.
C24_LastValidQuoteWins ==
    locals # NotCalled =>
        \A e \in 1..Len(options_data), strike \in QuoteStrikes :
            DaysOf(e) > 0 =>
                IF ValidAt(e, strike) = {}
                THEN <<DaysOf(e), strike>> \notin DOMAIN Table
                ELSE /\ <<DaysOf(e), strike>> \in DOMAIN Table
                     /\ Table[<<DaysOf(e), strike>>] =
                            QuotesInOrder(e)[Highest(ValidAt(e, strike))].iv

\* An expiration has a valid call quote and a valid put quote of the same
\* strike with another volatility; the table holds the put's.
C24_Witness ==
    /\ locals # NotCalled
    /\ \E e \in 1..Len(options_data) :
          /\ DaysOf(e) > 0
          /\ Len(options_data[e].calls) = 1 /\ Len(options_data[e].puts) = 1
          /\ options_data[e].calls[1].strike = options_data[e].puts[1].strike
          /\ options_data[e].calls[1].iv # options_data[e].puts[1].iv
          /\ ValidAt(e, options_data[e].calls[1].strike) = {1, 2}
          /\ Table[<<DaysOf(e), options_data[e].puts[1].strike>>] = options_data[e].puts[1].iv

(***************************************************************************)
(* Properties of the lattice pricer and of its caller.                     *)
(***************************************************************************)
\* C19: a call of american_option_binomial with steps < 1 fails with
\* InvalidStepCount, a call with a kind that is neither call nor put fails
\* with InvalidOptionKind (a call with both faults fails with one of the
\* two), and display_options only calls it with a step count of at least 1:
\* the script's n_steps is 50 or a position of the slider, from 20 to 200.
C19_StepCountAndKind ==
    /\ n_steps >= 1
    /\ n_steps = default_steps \/ n_steps \in slider_min..slider_max
    /\ \A k \in 1..Len(lattice) :
          LET c == lattice[k]
          IN  /\ c.steps < 1 /\ c.kind \in ValidKinds =>
                    c.out.st = "raise" /\ c.out.val = "InvalidStepCount"
              /\ c.steps >= 1 /\ c.kind \notin ValidKinds =>
                    c.out.st = "raise" /\ c.out.val = "InvalidOptionKind"
              /\ c.steps < 1 /\ c.kind \notin ValidKinds =>
                    c.out.st = "raise"
                        /\ c.out.val \in {"InvalidStepCount", "InvalidOptionKind"}
              /\ c.steps >= 1 /\ c.kind \in ValidKinds /\ c.out.st = "raise" =>
                    c.out.val \notin {"InvalidStepCount", "InvalidOptionKind"}
              /\ c.caller = "display_options" =>
                    /\ c.steps >= 1
                    /\ c.steps = default_steps \/ c.steps \in slider_min..slider_max
                    /\ c.kind \in ValidKinds

\* display_options has priced the call shown with the binomial model and the
\* slider at its lowest position.
C19_Witness ==
    /\ pricing_model = PricingModels[2]
    /\ n_steps = slider_min
    /\ Len(lattice) = 1
    /\ lattice[1].caller = "display_options"
    /\ lattice[1].steps = slider_min /\ lattice[1].kind = "call"
    /\ lattice[1].out.st = "return"

\* max(0, S_i - K) for a call and max(0, K - S_i) for a put, of a finite S_i.
Payoff(Si, K, kind) ==
    Fin(IF kind = "call" THEN Max(0, Si.v - K) ELSE Max(0, K - Si.v))

\* C20: in every lattice that american_option_binomial returns, every node of
\* the backward induction has the value max(continuation, intrinsic(S_i)),
\* which is at least 0 and at least the node's intrinsic value, and the price
\* returned is the value of the node of step 0, at least max(0, intrinsic(spot)).
C20_NodeValues ==
    \A c \in {lattice[k] : k \in {k \in 1..Len(lattice) : lattice[k].out.st = "return"}} :
        /\ Len(c.out.val.layers) = c.steps
        /\ \A s \in 1..c.steps :
              /\ Len(c.out.val.layers[s]) = s
              /\ \A i \in 1..s :
                    LET node == c.out.val.layers[s][i]
                        intrinsic == Payoff(node.S, c.K, c.kind)
                    IN  /\ IsFin(node.S) /\ IsFin(node.continuation) /\ IsFin(node.value)
                        /\ node.value.v = Max(node.continuation.v, intrinsic.v)
                        /\ node.value.v >= 0
                        /\ node.value.v >= intrinsic.v
        /\ c.out.val.layers[1][1].S = Fin(c.S)
        /\ c.out.val.price = c.out.val.layers[1][1].value
        /\ c.out.val.price.v >= Max(0, Payoff(Fin(c.S), c.K, c.kind).v)

\* A put in the money priced on MaxSteps steps: at one node of the last
\* step but one early exercise is worth more than waiting, at another one
\* waiting is worth more.
C20_Witness ==
    /\ Len(lattice) = 1
    /\ lattice[1].steps = MaxSteps /\ lattice[1].kind = "put"
    /\ lattice[1].out.st = "return"
    /\ lattice[1].S < lattice[1].K
    /\ LET layer == lattice[1].out.val.layers[MaxSteps]
       IN  /\ \E i \in 1..MaxSteps : layer[i].continuation.v < layer[i].value.v
           /\ \E i \in 1..MaxSteps :
                 /\ layer[i].value.v = layer[i].continuation.v
                 /\ layer[i].value.v > Payoff(layer[i].S, lattice[1].K, "put").v
                 /\ Payoff(layer[i].S, lattice[1].K, "put").v > 0
    /\ lattice[1].out.val.price.v > lattice[1].K - lattice[1].S

\* The put of args priced by both pricers, at a positive rate.
BothPutsPriced ==
    /\ args.r > 0
    /\ price["put"].st = "return"
    /\ Len(lattice) = 1
    /\ lattice[1].kind = "put" /\ lattice[1].out.st = "return"

RECURSIVE EuropeanValue(_, _)
EuropeanValue(lp, layer) ==
    IF Len(layer) = 1 THEN layer[1]
    ELSE EuropeanValue(lp, [i \in 1..(Len(layer) - 1) |->
                                Continuation(lp, layer[i + 1], layer[i])])

\* The terminal payoffs of a returned lattice.
TerminalValues(res) == [i \in 1..Len(res.terminal) |-> res.terminal[i].value]

KeptRows == SelectRows(options_df.rows, args.S)

\* C25: on a table that has every column of a quote table, of positive implied
\* volatility and time to expiry, and of which some row is near the money, display_options returns a table with a
\* theoreticalPrice column, whichever the pricing model.
C25_ReturnsForBothModels ==
    (/\ displayed # NotCalled
     /\ options_df.columns = AllColumns
     /\ KeptRows # <<>>
     /\ args.T > 0
     /\ args.sigma > 0)
        => /\ displayed.out.st = "return"
           /\ "theoreticalPrice" \in displayed.out.val.columns

\* C26: on a table that has only the columns strike and impliedVolatility,
\* of positive implied volatility and time to expiry, and of which some row is
\* near the money, display_options returns the table
\* with a theoreticalPrice column and without a priceDiff column.
C26_AcceptsRequiredColumnsOnly ==
    (/\ displayed # NotCalled
     /\ options_df.columns = RequiredColumns
     /\ KeptRows # <<>>
     /\ args.T > 0
     /\ args.sigma > 0
     /\ displayed.model = PricingModels[1])
        => /\ displayed.out.st = "return"
           /\ "theoreticalPrice" \in displayed.out.val.columns
           /\ "priceDiff" \notin displayed.out.val.columns

\* 0.8 * current <= strike <= 1.2 * current, in exact arithmetic.
InBand(strike, current) ==
    /\ 10 * strike >= 8 * current
    /\ 10 * strike <= 12 * current

\* The positions of the rows of the input table whose strike is in the band.
BandPositions == {i \in 1..Len(options_df.rows) : InBand(options_df.rows[i].strike, args.S)}

\* The i-th of them, in the order of the table.
BandPosition(i) ==
    CHOOSE k \in BandPositions : Cardinality({j \in BandPositions : j <= k}) = i

\* After a call of display_options: a returned table holds exactly the rows
\* of the input whose strike is in the band, in their order, each with a
\* theoreticalPrice; the lattice pricer was called for those rows in their
\* order and for no other, up to a call that raised.
C27_PricedInBand ==
    displayed # NotCalled =>
        /\ displayed.out.st = "return" =>
              /\ Len(displayed.out.val.rows) = Cardinality(BandPositions)
              /\ \A i \in 1..Len(displayed.out.val.rows) :
                    LET row == displayed.out.val.rows[i]
                        given == options_df.rows[BandPosition(i)]
                    IN  /\ \A col \in DOMAIN given : row[col] = given[col]
                        /\ "theoreticalPrice" \in DOMAIN row
        /\ displayed.model = PricingModels[1] => lattice = <<>>
        /\ displayed.model = PricingModels[2] =>
              /\ Len(lattice) <= Cardinality(BandPositions)
              /\ \A i \in 1..Len(lattice) :
                    /\ lattice[i].K = options_df.rows[BandPosition(i)].strike
                    /\ lattice[i].S = args.S
              /\ Len(lattice) < Cardinality(BandPositions) =>
                    /\ lattice # <<>>
                    /\ lattice[Len(lattice)].out.st = "raise"

\* C27: display_options keeps exactly the rows with 0.8 * current_price <=
\* strike <= 1.2 * current_price, both bounds included, prices every kept row
\* and no other, and leaves the table it was given as it was.
C27_KeepsBandAndInput ==
    /\ []C27_PricedInBand
    /\ [][options_df' = options_df]_vars

\* A table was returned that holds a row at each bound of the band, from an
\* input that has a row just outside each bound.
C27_Witness ==
    /\ displayed # NotCalled
    /\ displayed.out.st = "return"
    /\ \E i \in 1..Len(displayed.out.val.rows) :
          10 * displayed.out.val.rows[i].strike = 8 * args.S
    /\ \E i \in 1..Len(displayed.out.val.rows) :
          10 * displayed.out.val.rows[i].strike = 12 * args.S
    /\ \E i \in 1..Len(options_df.rows) : 10 * options_df.rows[i].strike < 8 * args.S
    /\ \E i \in 1..Len(options_df.rows) : 10 * options_df.rows[i].strike > 12 * args.S

(***************************************************************************)
(* Properties of get_options_chain and of the session cache.               *)
(***************************************************************************)
\* C28: get_options_chain raises ValueError when the ticker lists no
\* expiration; otherwise it returns a mapping whose keys are exactly the
\* expirations of which both fetches succeeded, each with the calls and the
\* puts of that ticker and expiration.
C28_ChainOfFetchedExpirations ==
    fetched # NotCalled =>
        IF fetched.expirations = <<>>
        THEN fetched.out.st = "raise" /\ fetched.out.val = "ValueError"
        ELSE /\ fetched.out.st = "return"
             /\ DOMAIN fetched.out.val =
                    {fetched.expirations[i] : i \in
                        {j \in 1..Len(fetched.expirations) : fetched.answers[j] = "both"}}
             /\ \A exp \in DOMAIN fetched.out.val :
                    /\ DOMAIN fetched.out.val[exp] = {"calls", "puts"}
                    /\ fetched.out.val[exp].calls = QuoteTable(fetched.ticker, exp, "calls")
                    /\ fetched.out.val[exp].puts = QuoteTable(fetched.ticker, exp, "puts")

\* A chain was returned of which a fetch failed for the first expiration, and
\* for the calls of one expiration and the puts of another, and that holds
\* the one expiration left.
C28_Witness ==
    /\ fetched # NotCalled
    /\ Len(fetched.expirations) = 3
    /\ fetched.answers[1] # "both"
    /\ \E i \in 1..3 : fetched.answers[i] = "calls_raise"
    /\ \E i \in 1..3 : fetched.answers[i] = "puts_raise"
    /\ fetched.out.st = "return"
    /\ Cardinality(DOMAIN fetched.out.val) = 1

\* Whenever the session holds options_data, it holds current_ticker, and
\* options_data is a chain of the tables of that ticker.
CacheOfCurrentTicker ==
    "options_data" \in session_state.keys =>
        /\ "current_ticker" \in session_state.keys
        /\ \A exp \in DOMAIN session_state.options_data :
              /\ session_state.options_data[exp].calls
                     = QuoteTable(session_state.current_ticker, exp, "calls")
              /\ session_state.options_data[exp].puts
                     = QuoteTable(session_state.current_ticker, exp, "puts")

\* After a run: a chain that was fetched is cached with its ticker, and a run
\* that fetched none, or of which the fetch raised, leaves the session as it was.
CacheFollowsFetch ==
    run # NotCalled =>
        IF run.called /\ run.out.st = "return"
        THEN /\ {"options_data", "current_ticker"} \subseteq session_state.keys
             /\ session_state.options_data = run.out.val
             /\ session_state.current_ticker = run.ticker
        ELSE session_state = run.before

\* No chain was cached when the run began, or the ticker entered differs from
\* the one of the cached chain.
RunFoundCacheStale ==
    \/ "options_data" \notin run.before.keys
    \/ run.before.current_ticker # run.ticker

\* C29, as the claim states it: the cached chain is the one of current_ticker,
\* a failed fetch leaves the cache as it was, and a run that gets past line 93
\* fetches the chain exactly when none is cached or the ticker differs.
C29_RefetchExactlyWhenStale ==
    /\ CacheOfCurrentTicker
    /\ CacheFollowsFetch
    /\ (run # NotCalled /\ (run.load_data \/ "options_data" \in run.before.keys))
          => (run.called <=> RunFoundCacheStale)

\* C29, amended: the cached chain is the one of current_ticker, a failed
\* fetch leaves the cache as it was, and a run fetches the chain exactly when
\* it gets past line 93 (the button is pressed or a chain is cached), the
\* stock data and the stock info are fetched without an exception, and no
\* chain is cached or the ticker differs.
C29_RefetchWhenStaleAndReached ==
    /\ CacheOfCurrentTicker
    /\ CacheFollowsFetch
    /\ run # NotCalled =>
          (run.called <=> /\ run.load_data \/ "options_data" \in run.before.keys
                          /\ run.stock_ok
                          /\ RunFoundCacheStale)

\* A run without the button found the chain of another ticker cached, and
\* its fetch raised: the chain of the other ticker is still cached.
C29_Witness ==
    /\ run # NotCalled
    /\ ~run.load_data
    /\ "options_data" \in run.before.keys
    /\ run.before.current_ticker # run.ticker
    /\ run.called
    /\ run.out.st = "raise"
    /\ session_state.current_ticker # run.ticker
    /\ DOMAIN session_state.options_data # {}

\* C30: after a run with the button pressed that fetched the chain, the
\* session holds options_data and current_price, and the surface tabs render.
C30_SurfaceTabsRender ==
    (/\ run # NotCalled
     /\ run.load_data
     /\ run.called
     /\ run.out.st = "return")
        => /\ {"options_data", "current_price"} \subseteq session_state.keys
           /\ SurfaceTabRenders(session_state)
====
